---- MODULE Spec2Model ----
(***************************************************************************)
(* Model of convert_to_ico.py: a script that checks that faviconPNG.png    *)
(* exists, opens it with PIL, saves it as a multi-size favicon.ico and     *)
(* prints two status lines.                                                *)
(*                                                                         *)
(* The file system holds the two paths the script names.  One run of the   *)
(* script is the sequence CheckInput, OpenImage, SaveIco, Report1,         *)
(* Report2; StartRun is the user invoking the script again, possibly after *)
(* replacing the input file.                                               *)
(*                                                                         *)
(* The library calls the script makes are modelled by what Pillow does:    *)
(*   os.path.exists : true for anything stat() finds, directories and      *)
(*                    unreadable files included;                           *)
(*   Image.open     : opens the file and identifies it from its header,    *)
(*                    pixel data is not read (lazy loading);               *)
(*   Image.save     : load() the pixel data, then open the output "w+b",   *)
(*                    then run the ICO encoder; the encoder skips every    *)
(*                    requested size larger than the image and stores a    *)
(*                    thumbnail() (aspect ratio kept) of a copy otherwise. *)
(***************************************************************************)
EXTENDS Integers, Sequences, FiniteSets, TLC

\* Number of distinct pixel contents an input image of given dimensions can have.
MaxPix == 2

\* src/convert_to_ico.py:5-6
input_file == "faviconPNG.png"
output_file == "favicon.ico"
Paths == {input_file, output_file}

\* src/convert_to_ico.py:18
sizes == << <<16, 16>>, <<32, 32>>, <<48, 48>> >>

\* Side lengths of the input images: below every requested size, equal to the
\* smallest, between the two largest, above all of them.
Sides == {12, 16, 40, 64}

VARIABLES
    fs,          \* path -> file
    pc,          \* position of the script: check, open, save, report1, report2, done
    img,         \* the Image object bound to `img`
    stdout,      \* lines printed by this run
    exitStatus,  \* -1 while running, else the process exit status
    uncaught,    \* name of the exception that ended the run, "none" otherwise
    steps,       \* the steps this run has entered, in order
    fs0,         \* the file system when this run started
    prevOk       \* the previous run had the same input and ended with status 0

vars == <<fs, pc, img, stdout, exitStatus, uncaught, steps, fs0, prevOk>>

----------------------------------------------------------------------------
\* Files

File(kind, w, h, pix, frames) ==
    [kind |-> kind, w |-> w, h |-> h, pix |-> pix, frames |-> frames]

Absent == File("absent", 0, 0, 0, <<>>)
Ico(frames) == File("ico", 0, 0, 0, frames)
Partial == File("partial", 0, 0, 0, <<>>)

\* What faviconPNG.png can be:
\*   absent    no such path
\*   dir       a directory of that name
\*   noperm    a regular file the user may not read
\*   garbage   a file that is no image (header not recognised)
\*   png       a well-formed PNG
\*   truncated a PNG with a good header whose pixel data is cut short
\*   cmyk      a decodable image (not a PNG) in a mode the ICO encoder cannot write
InputFiles ==
    {Absent, File("dir", 0, 0, 0, <<>>), File("noperm", 0, 0, 0, <<>>),
     File("garbage", 0, 0, 0, <<>>)}
    \cup {File("png", w, h, p, <<>>) : w \in Sides, h \in Sides, p \in 1..MaxPix}
    \cup {File(k, w, h, 1, <<>>) : k \in {"truncated", "cmyk"}, w \in Sides, h \in Sides}

\* A favicon.ico left by something else than this script.
ForeignIco == Ico(<< [req |-> <<64, 64>>, dims |-> <<64, 64>>, src |-> <<64, 64, 0>>] >>)

----------------------------------------------------------------------------
\* The Image object

NoImg == [fp |-> "none", size |-> <<0, 0>>, pix |-> 0, kind |-> "none"]

Abs(n) == IF n < 0 THEN -n ELSE n
Max(a, b) == IF a >= b THEN a ELSE b
CeilDiv(a, b) == IF a % b = 0 THEN a \div b ELSE (a \div b) + 1

\* Image.thumbnail(size): the dimensions of the thumbnail of a w x h image
\* for the requested box <<x, y>>; the aspect ratio is kept.
Thumbnail(w, h, x, y) ==
    IF x >= w /\ y >= h THEN <<w, h>>
    ELSE IF x * h >= w * y
    THEN LET f == (y * w) \div h
             c == CeilDiv(y * w, h)
             n == IF Abs(w * y - f * h) <= Abs(w * y - c * h) THEN f ELSE c
         IN  <<Max(n, 1), y>>
    ELSE LET f == (x * h) \div w
             c == CeilDiv(x * h, w)
             n == IF f = 0 THEN f
                  ELSE IF Abs(w * f - x * h) * c <= Abs(w * c - x * h) * f THEN f ELSE c
         IN  <<x, Max(n, 1)>>

\* The ICO encoder's filter: a requested size larger than the image (or than
\* 256) gets no entry.
Skipped(w, h, size) ==
    size[1] > w \/ size[2] > h \/ size[1] > 256 \/ size[2] > 256

\* One directory entry of the written icon: the requested size it was made
\* for, the dimensions of the embedded image, and the source it was resampled
\* from (width, height, pixel content).
Frame(im, size) ==
    [req  |-> size,
     dims |-> Thumbnail(im.size[1], im.size[2], size[1], size[2]),
     src  |-> <<im.size[1], im.size[2], im.pix>>]

\* IcoImagePlugin._save: one frame per requested size that is not skipped, in
\* the order of sorted(set(sizes)), which is the order of `sizes` here.
RECURSIVE FramesFrom(_, _)
FramesFrom(im, i) ==
    IF i > Len(sizes) THEN <<>>
    ELSE (IF Skipped(im.size[1], im.size[2], sizes[i]) THEN <<>>
          ELSE << Frame(im, sizes[i]) >>) \o FramesFrom(im, i + 1)

IcoFrames(im) == FramesFrom(im, 1)

\* Mutant: os.path.isfile plus a readability test instead of os.path.exists.
ExistsIsReadableFile(f) == f.kind \notin {"absent", "dir", "noperm"}

\* os.path.exists(input_file)
Exists(f) == f.kind # "absent"

\* Mutant: the two paths swapped in the save call.
SaveTargetInput == input_file

\* The path img.save writes.
SaveTarget == output_file

\* Mutant: the output opened in append mode, new entries after the old ones.
AppendIco(prior, frames) ==
    Ico((IF prior.kind = "ico" THEN prior.frames ELSE <<>>) \o frames)

\* Mutant: the new entries merged into the prior icon, whose entries for sizes
\* not written now are kept.
MergeIco(prior, frames) ==
    LET Fresh(e) == \A i \in 1..Len(frames) : frames[i].req # e.req
    IN  Ico((IF prior.kind = "ico" THEN SelectSeq(prior.frames, Fresh) ELSE <<>>) \o frames)

\* open(output_file, "w+b") followed by the encoder's writes: the prior
\* content is discarded.
WriteIco(prior, frames) == Ico(frames)

\* Image.open(input_file): the exception raised, "none" when the header is
\* recognised.
OpenError(f) ==
    CASE f.kind = "absent"  -> "FileNotFoundError"
      [] f.kind = "dir"     -> "IsADirectoryError"
      [] f.kind = "noperm"  -> "PermissionError"
      [] f.kind = "garbage" -> "UnidentifiedImageError"
      [] OTHER              -> "none"

\* Mutant: the output is opened for writing before the pixel data is loaded.
SaveOutcomesOpenFirst(im, out) ==
    IF im.kind \in {"truncated", "cmyk"}
    THEN {[img |-> im, out |-> Partial, exc |-> "OSError"]}
    ELSE {[img |-> [im EXCEPT !.fp = "closed"],
           out |-> WriteIco(out, IcoFrames(im)), exc |-> "none"]}

\* img.save(output_file, format='ICO', sizes=sizes): the possible results
\* [img, out, exc].  save() first loads the pixel data (the input's file
\* pointer is closed when loading completes and stays open when it fails),
\* only then opens the output for writing and runs the encoder.  An encoder
\* failure leaves what was written so far; newer library versions remove the
\* file when save() itself had created it.
SaveOutcomes(im, out) ==
    IF im.kind = "truncated"
    THEN {[img |-> im, out |-> out, exc |-> "OSError"]}
    ELSE LET loaded == [im EXCEPT !.fp = "closed"] IN
         IF im.kind = "cmyk"
         THEN {[img |-> loaded, out |-> Partial, exc |-> "OSError"]}
              \cup (IF out.kind = "absent"
                    THEN {[img |-> loaded, out |-> Absent, exc |-> "OSError"]}
                    ELSE {})
         ELSE {[img |-> loaded, out |-> WriteIco(out, IcoFrames(loaded)), exc |-> "none"]}

----------------------------------------------------------------------------
\* Lines on standard output

Line(kind, path, szs, dims) ==
    [kind |-> kind, path |-> path, sizes |-> szs, dims |-> dims]

\* print(f"Error: {input_file} not found!")
ErrLine == Line("Error", input_file, <<>>, <<>>)
\* print(f"Successfully created {output_file} with sizes: {sizes}")
CreatedLine == Line("Successfully created", output_file, sizes, <<>>)
\* print(f"Original image size: {img.size}")
SizeLine(im) == Line("Original image size", "", <<>>, im.size)

----------------------------------------------------------------------------
\* The script

Init ==
    /\ fs \in [Paths -> InputFiles \cup {ForeignIco}]
    /\ fs[input_file] \in InputFiles
    /\ fs[output_file] \in {Absent, ForeignIco}
    /\ pc = "check"
    /\ img = NoImg
    /\ stdout = <<>>
    /\ exitStatus = -1
    /\ uncaught = "none"
    /\ steps = <<>>
    /\ fs0 = fs
    /\ prevOk = FALSE

\* An exception nobody catches: traceback, exit status 1.
Crash(exc) ==
    /\ uncaught' = exc
    /\ exitStatus' = 1
    /\ pc' = "done"

\* Mutant: the diagnostic is printed but exit(1) is forgotten.
CheckInputNoExit ==
    /\ pc = "check"
    /\ steps' = Append(steps, "check")
    /\ stdout' = IF ~Exists(fs[input_file]) THEN Append(stdout, ErrLine) ELSE stdout
    /\ pc' = "open"
    /\ UNCHANGED <<fs, img, exitStatus, uncaught, fs0, prevOk>>

\* Mutant: exit() without a status, which is exit status 0.
CheckInputExitZero ==
    /\ pc = "check"
    /\ steps' = Append(steps, "check")
    /\ IF ~Exists(fs[input_file])
       THEN /\ stdout' = Append(stdout, ErrLine)
            /\ exitStatus' = 0
            /\ pc' = "done"
       ELSE /\ pc' = "open"
            /\ UNCHANGED <<stdout, exitStatus>>
    /\ UNCHANGED <<fs, img, uncaught, fs0, prevOk>>

\* Lines 9-11.
CheckInput ==
    /\ pc = "check"
    /\ steps' = Append(steps, "check")
    /\ IF ~Exists(fs[input_file])
       THEN /\ stdout' = Append(stdout, ErrLine)
            /\ exitStatus' = 1
            /\ pc' = "done"
       ELSE /\ pc' = "open"
            /\ UNCHANGED <<stdout, exitStatus>>
    /\ UNCHANGED <<fs, img, uncaught, fs0, prevOk>>

\* Line 14.
OpenImage ==
    /\ pc = "open"
    /\ steps' = Append(steps, "decode")
    /\ LET f == fs[input_file] IN
       IF OpenError(f) # "none"
       THEN /\ Crash(OpenError(f))
            /\ UNCHANGED img
       ELSE /\ img' = [fp |-> "open", size |-> <<f.w, f.h>>, pix |-> f.pix, kind |-> f.kind]
            /\ pc' = "save"
            /\ UNCHANGED <<uncaught, exitStatus>>
    /\ UNCHANGED <<fs, stdout, fs0, prevOk>>

\* Mutant: the save wrapped in try/except-pass, the script goes on to report.
SaveIcoSwallow ==
    /\ pc = "save"
    /\ steps' = Append(steps, "encode")
    /\ \E r \in SaveOutcomes(img, fs[SaveTarget]) :
         /\ img' = r.img
         /\ fs' = [fs EXCEPT ![SaveTarget] = r.out]
    /\ pc' = "report1"
    /\ UNCHANGED <<uncaught, exitStatus, stdout, fs0, prevOk>>

\* Line 21.
SaveIco ==
    /\ pc = "save"
    /\ steps' = Append(steps, "encode")
    /\ \E r \in SaveOutcomes(img, fs[SaveTarget]) :
         /\ img' = r.img
         /\ fs' = [fs EXCEPT ![SaveTarget] = r.out]
         /\ IF r.exc # "none"
            THEN Crash(r.exc)
            ELSE /\ pc' = "report1"
                 /\ UNCHANGED <<uncaught, exitStatus>>
    /\ UNCHANGED <<stdout, fs0, prevOk>>

\* Line 23.
Report1 ==
    /\ pc = "report1"
    /\ steps' = Append(steps, "report")
    /\ stdout' = Append(stdout, CreatedLine)
    /\ pc' = "report2"
    /\ UNCHANGED <<fs, img, exitStatus, uncaught, fs0, prevOk>>

\* Line 24, and the end of the script.
Report2 ==
    /\ pc = "report2"
    /\ stdout' = Append(stdout, SizeLine(img))
    /\ exitStatus' = 0
    /\ pc' = "done"
    /\ UNCHANGED <<fs, img, uncaught, steps, fs0, prevOk>>

\* The user runs the script again, after putting `f` at the input path
\* (f = the file already there: a rerun on the unchanged input).
StartRun(f) ==
    /\ pc = "done"
    /\ fs' = [fs EXCEPT ![input_file] = f]
    /\ fs0' = fs'
    /\ prevOk' = (exitStatus = 0 /\ f = fs[input_file])
    /\ pc' = "check"
    /\ img' = NoImg
    /\ stdout' = <<>>
    /\ exitStatus' = -1
    /\ uncaught' = "none"
    /\ steps' = <<>>

Rerun == \E f \in InputFiles : StartRun(f)

Next ==
    \/ CheckInput
    \/ OpenImage
    \/ SaveIco
    \/ Report1
    \/ Report2
    \/ Rerun

Spec == Init /\ [][Next]_vars

----------------------------------------------------------------------------
\* Vocabulary of the properties

In0 == fs0[input_file]
Out0 == fs0[output_file]
Out == fs[output_file]
Entered(step) == \E i \in 1..Len(steps) : steps[i] = step
AllSteps == <<"check", "decode", "encode", "report">>
IsPrefix(s, t) == Len(s) <= Len(t) /\ \A i \in 1..Len(s) : s[i] = t[i]
\* The run took the missing-input branch of lines 9-11.
MissingPath == stdout = <<ErrLine>> /\ exitStatus = 1 /\ uncaught = "none" /\ ~Entered("decode")
\* The input as Image.open sees it.
InImg == [fp |-> "closed", size |-> <<In0.w, In0.h>>, pix |-> In0.pix, kind |-> In0.kind]
SizeLine0 == Line("Original image size", "", <<>>, <<In0.w, In0.h>>)
ProgramStep == CheckInput \/ OpenImage \/ SaveIco \/ Report1 \/ Report2

----------------------------------------------------------------------------
\* C1: in a run started with faviconPNG.png absent the script prints the one
\* diagnostic naming the file, exits with status 1 and does nothing else: the
\* image is never opened, the save never runs, favicon.ico stays as it was.
C1_MissingInputStops ==
    In0.kind = "absent" =>
        /\ pc \in {"check", "done"}
        /\ img = NoImg
        /\ ~Entered("decode") /\ ~Entered("encode")
        /\ Out = Out0
        /\ pc = "done" => /\ stdout = <<ErrLine>>
                          /\ stdout[1].path = input_file
                          /\ exitStatus = 1
                          /\ uncaught = "none"

C1_Witness ==
    pc = "done" /\ In0.kind = "absent" /\ Out0.kind = "ico" /\ Out0 # ForeignIco

\* C2: a successful run on a PNG of any dimensions writes exactly three
\* entries, 16x16, 32x32 and 48x48, each resampled from the source.
C2_ThreeEntries ==
    (pc = "done" /\ exitStatus = 0 /\ In0.kind = "png") =>
        /\ Out.kind = "ico"
        /\ Len(Out.frames) = Len(sizes)
        /\ \A i \in 1..Len(sizes) :
              /\ Out.frames[i].dims = sizes[i]
              /\ Out.frames[i].src = <<In0.w, In0.h, In0.pix>>

\* C3: with a corrupted or non-image faviconPNG.png, whether Image.open or
\* the load inside save fails, the run ends with a non-zero status and
\* favicon.ico is left exactly as it was.
C3_CorruptInputLeavesOutput ==
    In0.kind \in {"garbage", "truncated"} =>
        /\ Out = Out0
        /\ pc \in {"check", "open", "save", "done"}
        /\ pc = "done" => exitStatus # 0 /\ uncaught # "none"

C3_Witness ==
    /\ pc = "done" /\ In0.kind = "truncated" /\ Entered("encode")
    /\ Out0.kind = "ico" /\ Out = Out0

\* C4 as stated: an input that is absent, a directory or unreadable takes the
\* missing-input branch, and Image.open is not attempted.
C4_RegularReadableOnly ==
    (pc = "done" /\ In0.kind \in {"absent", "dir", "noperm"}) => MissingPath

\* C4 amended: the missing-input branch is taken exactly when the path does
\* not exist; a directory or an unreadable file passes the check, Image.open
\* is attempted and its exception ends the run with nothing printed.
C4_ExistenceOnly ==
    pc = "done" =>
        /\ MissingPath <=> In0.kind = "absent"
        /\ In0.kind \in {"dir", "noperm"} =>
              /\ Entered("decode")
              /\ stdout = <<>>
              /\ exitStatus = 1
              /\ uncaught \in {"IsADirectoryError", "PermissionError"}

C4_Witness ==
    pc = "done" /\ In0.kind = "dir" /\ uncaught = "IsADirectoryError"

\* C5: a run on a PNG ends with status 0, and a second run on the unchanged
\* input ends with status 0 and leaves favicon.ico as the first left it.
C5_Idempotent ==
    pc = "done" =>
        /\ In0.kind = "png" => exitStatus = 0
        /\ prevOk => exitStatus = 0 /\ Out = Out0

C5_Witness ==
    pc = "done" /\ prevOk /\ exitStatus = 0 /\ Len(Out.frames) > 1

\* C6: after a successful run favicon.ico is a function of the input image
\* alone, whatever was there before: every entry comes from this input.
C6_Overwrite ==
    (pc = "done" /\ exitStatus = 0) =>
        /\ Out = Ico(IcoFrames(InImg))
        /\ \A i \in 1..Len(Out.frames) : Out.frames[i].src = <<In0.w, In0.h, In0.pix>>

C6_Witness ==
    /\ pc = "done" /\ exitStatus = 0
    /\ Out0.kind = "ico" /\ Out0 # ForeignIco /\ Len(Out0.frames) > Len(Out.frames)
    /\ Len(Out.frames) > 0

\* C7: whenever the image was opened, its file handle is closed by the time
\* the run ends, after a successful save and after a failed one.
C7_HandleReleased ==
    (pc = "done" /\ img.fp # "none") => img.fp = "closed"

\* C8: standard output is a prefix of <<confirmation, original size>> or the
\* single diagnostic; the confirmation appears only once favicon.ico is
\* completely written; the size reported is the source's; a failed run
\* prints neither success line and the missing-input run exactly one line.
C8_StdoutOrder ==
    /\ stdout \in {<<>>, <<ErrLine>>, <<CreatedLine>>, <<CreatedLine, SizeLine0>>}
    /\ (stdout # <<>> /\ stdout[1] = CreatedLine) =>
          /\ Entered("encode") /\ uncaught = "none"
          /\ Out = Ico(IcoFrames(InImg))
          /\ CreatedLine.path = output_file /\ CreatedLine.sizes = sizes
    /\ pc = "done" =>
          /\ exitStatus = 0 => stdout = <<CreatedLine, SizeLine0>>
          /\ exitStatus # 0 => stdout \in {<<>>, <<ErrLine>>}
          /\ In0.kind = "absent" => stdout = <<ErrLine>>

C8_Witness ==
    /\ pc = "done" /\ exitStatus = 0 /\ Len(stdout) = 2
    /\ stdout[2].dims = <<64, 40>>

\* C9: a run is one pass through check, decode, encode+write, report, each
\* entered at most once and in that order; it never gets stuck before its
\* end, and it ends as success (status 0, all four steps done), as missing
\* input (status 1 after the check alone) or as an uncaught decode/encode
\* failure (non-zero status).
C9_LinearPass ==
    /\ IsPrefix(steps, AllSteps)
    /\ pc # "done" => exitStatus = -1 /\ ENABLED ProgramStep
    /\ pc = "done" =>
          \/ exitStatus = 0 /\ uncaught = "none" /\ steps = AllSteps
          \/ exitStatus = 1 /\ uncaught = "none" /\ steps = <<"check">>
                /\ stdout = <<ErrLine>>
          \/ exitStatus > 0 /\ uncaught # "none"
                /\ steps \in {<<"check", "decode">>, <<"check", "decode", "encode">>}

C9_Witness ==
    pc = "done" /\ uncaught # "none" /\ Len(steps) = 3 /\ Out.kind = "partial"

\* C10: during a run no path but favicon.ico changes; faviconPNG.png is as it
\* was when the run started, on every exit path.
C10_InputReadOnly ==
    \A p \in Paths \ {output_file} : fs[p] = fs0[p]

C10_Witness ==
    pc = "done" /\ exitStatus = 0 /\ Out # Out0 /\ fs[input_file] = In0

====
